---- MODULE Spec2Model ----
(***************************************************************************)
(* A model of the RCON client of mcutil (RCONClient: Dial, Login, Run,     *)
(* Close, the response pump started by Login, readMessage) and of the      *)
(* byte stream transport it talks over.                                    *)
(*                                                                         *)
(* Every access to a field of RCONClient (conn, authSuccess, requestID) is *)
(* a step of its own: the code takes no lock, so callers and pumps         *)
(* interleave between any two accesses.  A Go panic (a method called on    *)
(* the nil conn, a make with a negative size) ends the whole process.      *)
(*                                                                         *)
(* The transport is net.Conn over TCP: a Write is one whole, atomic        *)
(* append to the stream (net.Conn serialises Writes and the frames are far *)
(* smaller than a socket buffer); a Read of n > 0 bytes blocks until at    *)
(* least one byte is there and returns at most what has arrived; Close     *)
(* fails on a connection that is closed already.                           *)
(***************************************************************************)
EXTENDS Integers, Sequences, FiniteSets, TLC

(* ------------------------------ bounds -------------------------------- *)

\* transports Dial opens over the life of the client
MaxConns == 2
\* pumps started over the life of the client: Logins that succeed
MaxPumps == 2
\* what happens to the client over its life: the calls made on it, the
\* frames its peers send, a peer closing, a timeout running out and the
\* consumer of the messages stopping
MaxEvents == 5

(* ------------------------- program constants -------------------------- *)

LoginType == 3
CommandType == 2
ResponseType == 2
LoginRequestID == 0
InvalidPasswordID == -1
HeaderLen == 4
FrameOverhead == 10
IdTypeLen == 8
MaxInt32 == 2147483647

Callers == {"c1", "c2"}
Conns == 1..MaxConns
Pumps == 1..MaxPumps
NilConn == 0

(* --------------------------- wire encoding ---------------------------- *)

\* binary.Write(buf, binary.LittleEndian, int32(v)): two's complement, the
\* low byte first.  (v + MaxInt32) + 1 is v + 2^31, kept inside 32 bits.
Low3(u) == <<u % 256, (u \div 256) % 256, (u \div 65536) % 256>>

LE32(v) ==
    IF v >= 0
    THEN Low3(v) \o <<v \div 16777216>>
    ELSE LET w == (v + MaxInt32) + 1
         IN  Low3(w) \o <<(w \div 16777216) + 128>>

\* binary.Read(conn, binary.LittleEndian, &int32)
Int32Of(b) ==
    IF b[4] < 128
    THEN b[1] + 256 * b[2] + 65536 * b[3] + 16777216 * b[4]
    ELSE ((b[1] + 256 * b[2] + 65536 * b[3] + 16777216 * (b[4] - 128))
          - MaxInt32) - 1

\* binary.LittleEndian.Uint16(data): the two low bytes only
Uint16Of(b) == b[1] + 256 * b[2]

\* An increment by two.
Inc32_Two(v) == IF v >= MaxInt32 - 1 THEN v - MaxInt32 - MaxInt32 ELSE v + 2

\* r.requestID++ on an int32
Inc32(v) == IF v = MaxInt32 THEN (0 - MaxInt32) - 1 ELSE v + 1

\* A packet whose length field leaves the padding byte out.
Packet_ShortLength(id, type, payload) ==
    LE32(FrameOverhead - 1 + Len(payload)) \o LE32(id) \o LE32(type)
        \o payload \o <<0>> \o <<0>>

\* The packet Login and Run build in their bytes.Buffer:
\* length, request ID, type, payload, terminator, padding.
Packet(id, type, payload) ==
    LE32(FrameOverhead + Len(payload)) \o LE32(id) \o LE32(type)
        \o payload \o <<0>> \o <<0>>

LoginPacket(password) == Packet(LoginRequestID, LoginType, password)

RunPacket(id, command) == Packet(id, CommandType, command)

\* What callers pass in: passwords and commands, as bytes.
Passwords == {<<112>>}
Commands == {<<>>, <<108, 115>>}

\* What the peer may send: a frame with any declared length, not only the
\* well-formed 8 + trailing bytes.
Frame(len, id, type, rest) == LE32(len) \o LE32(id) \o LE32(type) \o rest

LoginAccepted == Frame(10, 0, 2, <<0, 0>>)
LoginRejected == Frame(10, -1, 2, <<0, 0>>)
WrongRequestID == Frame(10, 7, 2, <<0, 0>>)
WrongType == Frame(10, 0, 0, <<0, 0>>)
ResponseA == Frame(11, 1, 2, <<97, 0, 0>>)
ResponseAB == Frame(12, 2, 2, <<97, 98, 0, 0>>)
ShortLength == Frame(4, 0, 2, <<>>)
LongLength == Frame(65547, 3, 2, <<97, 0, 0>>)

\* Each with the number of its bytes that arrive at once: the whole frame,
\* or a first segment that ends inside the length field, inside the
\* payload or one byte before the end of the frame.
PeerWrites ==
    { <<LoginAccepted, 14>>, <<LoginAccepted, 13>>,
      <<LoginRejected, 14>>,
      <<WrongRequestID, 14>>,
      <<WrongType, 14>>,
      <<ResponseA, 15>>, <<ResponseA, 2>>,
      <<ResponseAB, 13>>,
      <<ShortLength, 12>>,
      <<LongLength, 15>> }

Take(s, n) == SubSeq(s, 1, n)
Drop(s, n) == SubSeq(s, n + 1, Len(s))
Min(a, b) == IF a < b THEN a ELSE b

Zeros(n) == [i \in 1..n |-> 0]

(* ------------------------------- state -------------------------------- *)

VARIABLES
    conn,         \* r.conn: NilConn or the transport Dial attached
    authSuccess,  \* r.authSuccess
    requestID,    \* r.requestID
    msgClosed,    \* whether r.Messages has been closed
    received,     \* what the consumer has received from r.Messages
    receiving,    \* whether the consumer still receives from r.Messages
    parse,        \* the ParseAddress call: its arguments and its results
    net,          \* the transports: per connection, its streams and flags
    dialed,       \* transports opened so far
    events,       \* what has happened to the client so far
    pc,           \* per caller: where it is in its call
    loc,          \* per caller: the locals of its call
    ret,          \* per caller: what its last call returned
    pump,         \* per pump goroutine: its position and locals
    panic         \* "none", or where the process panicked and died

vars == <<conn, authSuccess, requestID, msgClosed, received, receiving, parse,
          net, dialed, events, pc, loc, ret, pump, panic>>

client == <<conn, authSuccess, requestID>>

NoConn ==
    [open |-> FALSE, rx |-> <<>>, inflight |-> <<>>, eof |-> FALSE,
     closed |-> FALSE, wire |-> <<>>, rdl |-> FALSE, wdl |-> FALSE,
     late |-> FALSE]

NoLocals == [packetLength |-> 0, id |-> 0, rd |-> NilConn, buf |-> <<>>]

NoPump == [pc |-> "off", born |-> NilConn, packetLength |-> 0,
           rd |-> NilConn, buf |-> <<>>, data |-> <<>>, err |-> "none"]

NoReturn == [op |-> "none", err |-> "none"]

\* What a ParseAddress call returns, and the call before it has returned.
NoResult == [host |-> <<>>, port |-> 0, err |-> "none"]

NoParse == [address |-> <<>>, defaultPort |-> 0, result |-> NoResult]

NewRCON ==
    /\ conn = NilConn
    /\ authSuccess = FALSE
    /\ requestID = 0
    /\ msgClosed = FALSE
    /\ received = <<>>
    /\ receiving = TRUE
    /\ net = [c \in Conns |-> NoConn]
    /\ dialed = 0
    /\ events = 0
    /\ pc = [t \in Callers |-> "idle"]
    /\ loc = [t \in Callers |-> NoLocals]
    /\ ret = [t \in Callers |-> NoReturn]
    /\ pump = [p \in Pumps |-> NoPump]
    /\ panic = "none"

\* The client after NewRCON; no address is being parsed.
Init == NewRCON /\ parse = NoParse

(* ----------------------------- transport ------------------------------ *)

\* What conn.Read(data) with len(data) = want does on transport c now:
\* a method call on the nil conn panics; a closed transport and an expired
\* read deadline fail it; an empty buffer returns (0, nil) at once; bytes
\* that have arrived are returned; the end of the stream is io.EOF; and
\* otherwise the Read blocks.
ReadNow(c, want) ==
    IF c = NilConn THEN "panic"
    ELSE IF net[c].closed THEN "closed"
    ELSE IF want = 0 THEN "ok"
    ELSE IF net[c].rdl /\ net[c].late THEN "timeout"
    ELSE IF net[c].rx # <<>> THEN "ok"
    ELSE IF net[c].eof THEN "eof"
    ELSE "block"

\* What conn.Write(frame) does on transport c now.
WriteNow(c) ==
    IF c = NilConn THEN "panic"
    ELSE IF net[c].closed THEN "closed"
    ELSE IF net[c].wdl /\ net[c].late THEN "timeout"
    ELSE "ok"

\* The error a failed transport call returns.
ErrOf(kind) ==
    CASE kind = "closed" -> "ErrClosed"
      [] kind = "timeout" -> "ErrTimeout"
      [] kind = "eof" -> "EOF"

\* The bytes one Read of `want` bytes gets, and the stream after it.
Got(c, want) == Take(net[c].rx, Min(want, Len(net[c].rx)))

Consumed(c, n) == [net EXCEPT ![c].rx = Drop(@, n)]

Written(c, frame) == [net EXCEPT ![c].wire = @ \o frame]

\* One Read of io.ReadFull(rd, 4 bytes), as binary.Read does it: rd is the
\* value r.conn had when binary.Read was called, and buf is what earlier
\* Reads of this ReadFull got.
FullKind(rd, buf) == ReadNow(rd, HeaderLen - Len(buf))

FullBuf(rd, buf) == buf \o Got(rd, HeaderLen - Len(buf))

FullNet(rd, buf) == Consumed(rd, Len(FullBuf(rd, buf)) - Len(buf))

\* The error of a ReadFull that fails: the stream ending inside the four
\* bytes is io.ErrUnexpectedEOF.
FullErr(rd, buf) ==
    IF FullKind(rd, buf) = "eof" /\ buf # <<>>
    THEN "ErrUnexpectedEOF"
    ELSE ErrOf(FullKind(rd, buf))

(* -------------------------------- Dial -------------------------------- *)

\* Dial: net.DialTimeout fails, or the new transport gets the deadline for
\* reads and writes and is stored in r.conn.
Dial(t) ==
    /\ panic = "none"
    /\ pc[t] = "idle"
    /\ dialed < MaxConns
    /\ events < MaxEvents
    /\ events' = events + 1
    /\ \E ok \in BOOLEAN :
        IF ok
        THEN /\ dialed' = dialed + 1
             /\ net' = [net EXCEPT ![dialed + 1] =
                          [NoConn EXCEPT !.open = TRUE, !.rdl = TRUE,
                                         !.wdl = TRUE]]
             /\ conn' = dialed + 1
             /\ ret' = [ret EXCEPT ![t] = [op |-> "Dial", err |-> "nil"]]
        ELSE /\ ret' = [ret EXCEPT ![t] =
                            [op |-> "Dial", err |-> "ErrConnection"]]
             /\ UNCHANGED <<dialed, net, conn>>
    /\ UNCHANGED <<authSuccess, requestID, msgClosed, received, receiving,
                   parse, pc, loc, pump, panic>>

(* -------------------------------- peer -------------------------------- *)

\* The peer writes a frame: a first segment arrives, the rest is on its way.
PeerSend(c) ==
    /\ panic = "none"
    /\ net[c].open /\ ~net[c].closed /\ ~net[c].eof
    /\ net[c].inflight = <<>>
    /\ events < MaxEvents
    /\ \E w \in PeerWrites :
        net' = [net EXCEPT ![c].rx = @ \o Take(w[1], w[2]),
                           ![c].inflight = Drop(w[1], w[2])]
    /\ events' = events + 1
    /\ UNCHANGED <<client, msgClosed, received, receiving, parse, dialed, pc,
                   loc, ret, pump, panic>>

\* The rest of the frame arrives.
PeerDeliver(c) ==
    /\ panic = "none"
    /\ net[c].open /\ ~net[c].closed
    /\ net[c].inflight # <<>>
    /\ net' = [net EXCEPT ![c].rx = @ \o net[c].inflight,
                          ![c].inflight = <<>>]
    /\ UNCHANGED <<client, msgClosed, received, receiving, parse, dialed,
                   events, pc, loc, ret, pump, panic>>

\* The peer closes its side: the stream ends after what has arrived.
PeerClose(c) ==
    /\ panic = "none"
    /\ net[c].open /\ ~net[c].closed /\ ~net[c].eof
    /\ net[c].inflight = <<>>
    /\ events < MaxEvents
    /\ events' = events + 1
    /\ net' = [net EXCEPT ![c].eof = TRUE]
    /\ UNCHANGED <<client, msgClosed, received, receiving, parse, dialed, pc,
                   loc, ret, pump, panic>>

\* The timeout Dial gave the transport runs out.
DeadlinePasses(c) ==
    /\ panic = "none"
    /\ net[c].open /\ ~net[c].closed /\ ~net[c].late
    /\ events < MaxEvents
    /\ events' = events + 1
    /\ net' = [net EXCEPT ![c].late = TRUE]
    /\ UNCHANGED <<client, msgClosed, received, receiving, parse, dialed, pc,
                   loc, ret, pump, panic>>

(* -------------------------- caller bookkeeping ------------------------ *)

LoginPcs == {"login_auth", "login_write", "login_len", "login_id",
             "login_type", "login_rest", "login_set", "login_go"}
RunPcs == {"run_auth", "run_load", "run_store", "run_build", "run_write"}
ClosePcs == {"close_id", "close_check", "close_conn", "close_nil"}

\* A call returns err: the caller is idle again and its locals are gone.
Return(t, op, err) ==
    /\ pc' = [pc EXCEPT ![t] = "idle"]
    /\ loc' = [loc EXCEPT ![t] = NoLocals]
    /\ ret' = [ret EXCEPT ![t] = [op |-> op, err |-> err]]
    /\ panic' = panic

\* A step of a call panics: the process is gone.
Panic(site) ==
    /\ panic' = site
    /\ UNCHANGED <<pc, loc, ret>>

Goto(t, label) ==
    /\ pc' = [pc EXCEPT ![t] = label]
    /\ UNCHANGED <<ret, panic>>

(* -------------------------------- Login ------------------------------- *)

\* if r.conn == nil { return ErrNotConnected }
LoginCheckConn(t) ==
    /\ panic = "none"
    /\ pc[t] = "idle"
    /\ events < MaxEvents
    /\ Cardinality({p \in Pumps : pump[p].pc = "off"})
         > Cardinality({u \in Callers : pc[u] \in LoginPcs})
    /\ events' = events + 1
    /\ IF conn = NilConn
       THEN Return(t, "Login", "ErrNotConnected")
       ELSE Goto(t, "login_auth") /\ loc' = loc
    /\ UNCHANGED <<client, msgClosed, received, receiving, parse, net, dialed,
                   pump>>

\* A Login that does not check authSuccess.
LoginCheckAuth_NoCheck(t) ==
    /\ panic = "none"
    /\ pc[t] = "login_auth"
    /\ Goto(t, "login_write") /\ loc' = loc
    /\ UNCHANGED <<client, msgClosed, received, receiving, parse, net, dialed,
                   events, pump>>

\* if r.authSuccess { return ErrAlreadyLoggedIn }
LoginCheckAuth(t) ==
    /\ panic = "none"
    /\ pc[t] = "login_auth"
    /\ IF authSuccess
       THEN Return(t, "Login", "ErrAlreadyLoggedIn")
       ELSE Goto(t, "login_write") /\ loc' = loc
    /\ UNCHANGED <<client, msgClosed, received, receiving, parse, net, dialed,
                   events, pump>>

\* io.Copy(r.conn, buf) of the login request packet
LoginWrite(t) ==
    /\ panic = "none"
    /\ pc[t] = "login_write"
    /\ \E password \in Passwords :
        CASE WriteNow(conn) = "panic" ->
                Panic("Login: nil conn") /\ net' = net
          [] WriteNow(conn) = "ok" ->
                /\ net' = Written(conn, LoginPacket(password))
                /\ Goto(t, "login_len") /\ loc' = loc
          [] OTHER ->
                Return(t, "Login", ErrOf(WriteNow(conn))) /\ net' = net
    /\ UNCHANGED <<client, msgClosed, received, receiving, parse, dialed,
                   events, pump>>

\* binary.Read(r.conn, binary.LittleEndian, &packetLength)
LoginLengthRead(t, v) ==
    /\ Goto(t, "login_id")
    /\ loc' = [loc EXCEPT ![t] = [NoLocals EXCEPT !.packetLength = v]]

\* A Login that takes request ID -1 for any other unexpected request ID.
LoginRequestIDRead_NoReject(t, v) ==
    IF v # LoginRequestID
    THEN Return(t, "Login", "ErrUnexpectedRequestID")
    ELSE /\ Goto(t, "login_type")
         /\ loc' = [loc EXCEPT ![t].rd = NilConn, ![t].buf = <<>>]

\* binary.Read(..., &requestID); -1 is the rejected password, anything
\* else but 0 is unexpected
LoginRequestIDRead(t, v) ==
    IF v = InvalidPasswordID
    THEN Return(t, "Login", "ErrInvalidPassword")
    ELSE IF v # LoginRequestID
    THEN Return(t, "Login", "ErrUnexpectedRequestID")
    ELSE /\ Goto(t, "login_type")
         /\ loc' = [loc EXCEPT ![t].rd = NilConn, ![t].buf = <<>>]

\* binary.Read(..., &packetType); it must be 0x02
LoginTypeRead(t, v) ==
    IF v # ResponseType
    THEN Return(t, "Login", "ErrUnexpectedType")
    ELSE /\ Goto(t, "login_rest")
         /\ loc' = [loc EXCEPT ![t].rd = NilConn, ![t].buf = <<>>]

LoginFieldRead(t, v) ==
    CASE pc[t] = "login_len" -> LoginLengthRead(t, v)
      [] pc[t] = "login_id" -> LoginRequestIDRead(t, v)
      [] pc[t] = "login_type" -> LoginTypeRead(t, v)

\* binary.Read(r.conn, ...) of Login: the call loads r.conn (a nil conn
\* panics at the first Read), and then each Read on that transport
\* completes the field, needs more bytes, or fails and Login returns its
\* error.
LoginField(t) ==
    LET rd  == loc[t].rd
        buf == loc[t].buf
        k   == FullKind(rd, buf)
    IN  IF rd = NilConn
        THEN /\ net' = net
             /\ IF conn = NilConn
                THEN Panic("Login: nil conn")
                ELSE /\ loc' = [loc EXCEPT ![t].rd = conn]
                     /\ UNCHANGED <<pc, ret, panic>>
        ELSE /\ k # "block"
             /\ IF k = "ok"
                THEN /\ net' = FullNet(rd, buf)
                     /\ IF Len(FullBuf(rd, buf)) = HeaderLen
                        THEN LoginFieldRead(t, Int32Of(FullBuf(rd, buf)))
                        ELSE /\ loc' = [loc EXCEPT
                                          ![t].buf = FullBuf(rd, buf)]
                             /\ UNCHANGED <<pc, ret, panic>>
                ELSE Return(t, "Login", FullErr(rd, buf)) /\ net' = net

LoginReadLength(t) ==
    /\ panic = "none"
    /\ pc[t] = "login_len"
    /\ LoginField(t)
    /\ UNCHANGED <<client, msgClosed, received, receiving, parse, dialed,
                   events, pump>>

LoginReadRequestID(t) ==
    /\ panic = "none"
    /\ pc[t] = "login_id"
    /\ LoginField(t)
    /\ UNCHANGED <<client, msgClosed, received, receiving, parse, dialed,
                   events, pump>>

LoginReadType(t) ==
    /\ panic = "none"
    /\ pc[t] = "login_type"
    /\ LoginField(t)
    /\ UNCHANGED <<client, msgClosed, received, receiving, parse, dialed,
                   events, pump>>

\* data := make([]byte, packetLength-8); r.conn.Read(data): the make
\* panics on a negative size, the call loads r.conn (nil panics), and the
\* one Read on that transport returns whatever it returns
LoginReadRest(t) ==
    LET want == loc[t].packetLength - IdTypeLen
        rd   == loc[t].rd
        k    == ReadNow(rd, want)
    IN  /\ panic = "none"
        /\ pc[t] = "login_rest"
        /\ IF rd = NilConn
           THEN /\ net' = net
                /\ IF want < 0
                   THEN Panic("Login: negative size")
                   ELSE IF conn = NilConn
                   THEN Panic("Login: nil conn")
                   ELSE /\ loc' = [loc EXCEPT ![t].rd = conn]
                        /\ UNCHANGED <<pc, ret, panic>>
           ELSE /\ k # "block"
                /\ IF k = "ok"
                   THEN /\ net' = Consumed(rd, Len(Got(rd, want)))
                        /\ Goto(t, "login_set")
                        /\ loc' = [loc EXCEPT ![t].rd = NilConn]
                   ELSE Return(t, "Login", ErrOf(k)) /\ net' = net
        /\ UNCHANGED <<client, msgClosed, received, receiving, parse, dialed,
                       events, pump>>

\* r.authSuccess = true
LoginSetAuth(t) ==
    /\ panic = "none"
    /\ pc[t] = "login_set"
    /\ authSuccess' = TRUE
    /\ Goto(t, "login_go") /\ loc' = loc
    /\ UNCHANGED <<conn, requestID, msgClosed, received, receiving, parse,
                   net, dialed, events, pump>>

\* The pump that go func() starts: the first that is not running yet.
NewPump == CHOOSE p \in Pumps : pump[p].pc = "off" /\
                                \A q \in Pumps : q < p => pump[q].pc # "off"

Started == [NoPump EXCEPT !.pc = "len", !.born = conn]

\* r.conn.SetReadDeadline(time.Time{}), and on success go func() { for {
\* r.readMessage() } }() and return nil
LoginStartPump(t) ==
    /\ panic = "none"
    /\ pc[t] = "login_go"
    /\ IF conn = NilConn
       THEN Panic("Login: nil conn") /\ UNCHANGED <<net, pump>>
       ELSE IF net[conn].closed
       THEN Return(t, "Login", "ErrClosed") /\ UNCHANGED <<net, pump>>
       ELSE /\ net' = [net EXCEPT ![conn].rdl = FALSE]
            /\ pump' = [pump EXCEPT ![NewPump] = Started]
            /\ Return(t, "Login", "nil")
    /\ UNCHANGED <<client, msgClosed, received, receiving, parse, dialed,
                   events>>

(* --------------------------------- Run -------------------------------- *)

\* if r.conn == nil { return ErrNotConnected }
RunCheckConn(t) ==
    /\ panic = "none"
    /\ pc[t] = "idle"
    /\ events < MaxEvents
    /\ events' = events + 1
    /\ IF conn = NilConn
       THEN Return(t, "Run", "ErrNotConnected")
       ELSE Goto(t, "run_auth") /\ loc' = loc
    /\ UNCHANGED <<client, msgClosed, received, receiving, parse, net, dialed,
                   pump>>

\* A Run that does not check authSuccess.
RunCheckAuth_NoCheck(t) ==
    /\ panic = "none"
    /\ pc[t] = "run_auth"
    /\ Goto(t, "run_load") /\ loc' = loc
    /\ UNCHANGED <<client, msgClosed, received, receiving, parse, net, dialed,
                   events, pump>>

\* if !r.authSuccess { return ErrNotAuthenticated }
RunCheckAuth(t) ==
    /\ panic = "none"
    /\ pc[t] = "run_auth"
    /\ IF ~authSuccess
       THEN Return(t, "Run", "ErrNotAuthenticated")
       ELSE Goto(t, "run_load") /\ loc' = loc
    /\ UNCHANGED <<client, msgClosed, received, receiving, parse, net, dialed,
                   events, pump>>

\* r.requestID++ is a load and a store, with no lock around them
RunLoad(t) ==
    /\ panic = "none"
    /\ pc[t] = "run_load"
    /\ loc' = [loc EXCEPT ![t].id = requestID]
    /\ Goto(t, "run_store")
    /\ UNCHANGED <<client, msgClosed, received, receiving, parse, net, dialed,
                   events, pump>>

RunStore(t) ==
    /\ panic = "none"
    /\ pc[t] = "run_store"
    /\ requestID' = Inc32(loc[t].id)
    /\ Goto(t, "run_build") /\ loc' = loc
    /\ UNCHANGED <<conn, authSuccess, msgClosed, received, receiving, parse,
                   net, dialed, events, pump>>

\* binary.Write(buf, binary.LittleEndian, r.requestID) reads the field again
RunBuild(t) ==
    /\ panic = "none"
    /\ pc[t] = "run_build"
    /\ loc' = [loc EXCEPT ![t].id = requestID]
    /\ Goto(t, "run_write")
    /\ UNCHANGED <<client, msgClosed, received, receiving, parse, net, dialed,
                   events, pump>>

\* io.Copy(r.conn, buf) of the command packet
RunWrite(t) ==
    /\ panic = "none"
    /\ pc[t] = "run_write"
    /\ \E command \in Commands :
        CASE WriteNow(conn) = "panic" -> Panic("Run: nil conn") /\ net' = net
          [] WriteNow(conn) = "ok" ->
                /\ net' = Written(conn, RunPacket(loc[t].id, command))
                /\ Return(t, "Run", "nil")
          [] OTHER -> Return(t, "Run", ErrOf(WriteNow(conn))) /\ net' = net
    /\ UNCHANGED <<client, msgClosed, received, receiving, parse, dialed,
                   events, pump>>

(* -------------------------------- Close ------------------------------- *)

\* r.authSuccess = false
CloseAuth(t) ==
    /\ panic = "none"
    /\ pc[t] = "idle"
    /\ events < MaxEvents
    /\ events' = events + 1
    /\ authSuccess' = FALSE
    /\ Goto(t, "close_id") /\ loc' = loc
    /\ UNCHANGED <<conn, requestID, msgClosed, received, receiving, parse,
                   net, dialed, pump>>

\* A Close that leaves requestID as it is.
CloseRequestID_Keep(t) ==
    /\ panic = "none"
    /\ pc[t] = "close_id"
    /\ Goto(t, "close_check") /\ loc' = loc
    /\ UNCHANGED <<client, msgClosed, received, receiving, parse, net, dialed,
                   events, pump>>

\* r.requestID = 0
CloseRequestID(t) ==
    /\ panic = "none"
    /\ pc[t] = "close_id"
    /\ requestID' = 0
    /\ Goto(t, "close_check") /\ loc' = loc
    /\ UNCHANGED <<conn, authSuccess, msgClosed, received, receiving, parse,
                   net, dialed, events, pump>>

\* if r.conn != nil
CloseCheckConn(t) ==
    /\ panic = "none"
    /\ pc[t] = "close_check"
    /\ Goto(t, IF conn # NilConn THEN "close_conn" ELSE "close_nil")
    /\ UNCHANGED <<client, msgClosed, received, receiving, parse, net, dialed,
                   events, loc, pump>>

\* if err := r.conn.Close(); err != nil { return err }
CloseConn(t) ==
    /\ panic = "none"
    /\ pc[t] = "close_conn"
    /\ IF conn = NilConn
       THEN Panic("Close: nil conn") /\ net' = net
       ELSE IF net[conn].closed
       THEN Return(t, "Close", "ErrClosed") /\ net' = net
       ELSE /\ net' = [net EXCEPT ![conn].closed = TRUE]
            /\ Goto(t, "close_nil") /\ loc' = loc
    /\ UNCHANGED <<client, msgClosed, received, receiving, parse, dialed,
                   events, pump>>

\* r.conn = nil; return nil
CloseNil(t) ==
    /\ panic = "none"
    /\ pc[t] = "close_nil"
    /\ conn' = NilConn
    /\ Return(t, "Close", "nil")
    /\ UNCHANGED <<authSuccess, requestID, msgClosed, received, receiving,
                   parse, net, dialed, events, pump>>

(* ------------------------- the pump (readMessage) --------------------- *)

\* readMessage returns an error: the pump prints it
PumpFails(p, err) == [pump[p] EXCEPT !.pc = "print", !.err = err,
                                     !.rd = NilConn, !.buf = <<>>]

\* readMessage returns nil: the loop calls it again
PumpAgain(p) == [pump[p] EXCEPT !.pc = "len", !.err = "none",
                                    !.rd = NilConn, !.buf = <<>>]

\* A read of the pump begins: it loads r.conn, and a nil conn panics.
PumpCall(p) ==
    /\ net' = net
    /\ IF conn = NilConn
       THEN panic' = "pump: nil conn" /\ pump' = pump
       ELSE /\ pump' = [pump EXCEPT ![p].rd = conn]
            /\ panic' = panic

\* The packet length and the request ID: n, err := r.conn.Read(data) with
\* four bytes of room; if n < 4 { return nil }
PumpRead4(p, next) ==
    LET rd == pump[p].rd
        k  == ReadNow(rd, HeaderLen)
        b  == Got(rd, HeaderLen)
    IN  IF rd = NilConn
        THEN PumpCall(p)
        ELSE /\ k # "block"
             /\ panic' = panic
             /\ IF k = "ok"
                THEN /\ net' = Consumed(rd, Len(b))
                     /\ pump' = [pump EXCEPT ![p] =
                          IF Len(b) < HeaderLen
                          THEN PumpAgain(p)
                          ELSE IF pump[p].pc = "len"
                          THEN [pump[p] EXCEPT !.pc = next, !.rd = NilConn,
                                               !.packetLength = Uint16Of(b)]
                          ELSE [pump[p] EXCEPT !.pc = next, !.rd = NilConn]]
                ELSE /\ pump' = [pump EXCEPT ![p] = PumpFails(p, ErrOf(k))]
                     /\ net' = net

\* packetLength = int32(binary.LittleEndian.Uint16(data))
PumpReadLength(p) ==
    /\ panic = "none"
    /\ pump[p].pc = "len"
    /\ PumpRead4(p, "id")
    /\ UNCHANGED <<client, msgClosed, received, receiving, parse, dialed,
                   events, pc, loc, ret>>

\* the request ID is read and dropped
PumpReadRequestID(p) ==
    /\ panic = "none"
    /\ pump[p].pc = "id"
    /\ PumpRead4(p, "type")
    /\ UNCHANGED <<client, msgClosed, received, receiving, parse, dialed,
                   events, pc, loc, ret>>

\* binary.Read(r.conn, binary.LittleEndian, &packetType); it must be 2
PumpReadType(p) ==
    LET rd  == pump[p].rd
        buf == pump[p].buf
        k   == FullKind(rd, buf)
    IN  /\ panic = "none"
        /\ pump[p].pc = "type"
        /\ IF rd = NilConn
           THEN PumpCall(p)
           ELSE /\ k # "block"
                /\ panic' = panic
                /\ IF k = "ok"
                   THEN /\ net' = FullNet(rd, buf)
                        /\ pump' = [pump EXCEPT ![p] =
                             IF Len(FullBuf(rd, buf)) < HeaderLen
                             THEN [pump[p] EXCEPT !.buf = FullBuf(rd, buf)]
                             ELSE IF Int32Of(FullBuf(rd, buf)) # ResponseType
                             THEN PumpFails(p, "ErrUnexpectedType")
                             ELSE [pump[p] EXCEPT !.pc = "payload",
                                        !.rd = NilConn, !.buf = <<>>]]
                   ELSE /\ pump' = [pump EXCEPT ![p] =
                                       PumpFails(p, FullErr(rd, buf))]
                        /\ net' = net
        /\ UNCHANGED <<client, msgClosed, received, receiving, parse, dialed,
                       events, pc, loc, ret>>

\* data := make([]byte, packetLength-8); n, err := r.conn.Read(data);
\* if n < 1 { return nil }; the message is the whole of data
PumpReadPayload(p) ==
    LET want == pump[p].packetLength - IdTypeLen
        rd   == pump[p].rd
        k    == ReadNow(rd, want)
        b    == Got(rd, want)
    IN  /\ panic = "none"
        /\ pump[p].pc = "payload"
        /\ IF rd = NilConn
           THEN IF want < 0
                THEN panic' = "pump: negative size" /\ UNCHANGED <<net, pump>>
                ELSE PumpCall(p)
           ELSE /\ k # "block"
                /\ panic' = panic
                /\ IF k = "ok"
                   THEN /\ net' = Consumed(rd, Len(b))
                        /\ pump' = [pump EXCEPT ![p] =
                             IF Len(b) < 1
                             THEN PumpAgain(p)
                             ELSE [pump[p] EXCEPT !.pc = "publish",
                                     !.rd = NilConn,
                                     !.data = b \o Zeros(want - Len(b))]]
                   ELSE /\ pump' = [pump EXCEPT ![p] = PumpFails(p, ErrOf(k))]
                        /\ net' = net
        /\ UNCHANGED <<client, msgClosed, received, receiving, parse, dialed,
                       events, pc, loc, ret>>

\* r.Messages <- string(data): the channel has no buffer, so the send
\* completes when the consumer receives
PumpPublish(p) ==
    /\ panic = "none"
    /\ pump[p].pc = "publish"
    /\ ~msgClosed
    /\ receiving
    /\ received' = Append(received, pump[p].data)
    /\ pump' = [pump EXCEPT ![p] = [PumpAgain(p) EXCEPT !.data = <<>>]]
    /\ UNCHANGED <<client, msgClosed, receiving, parse, net, dialed, events,
                   pc, loc, ret, panic>>

\* fmt.Println(err), and round the loop again
PumpPrint(p) ==
    /\ panic = "none"
    /\ pump[p].pc = "print"
    /\ pump' = [pump EXCEPT ![p] = PumpAgain(p)]
    /\ UNCHANGED <<client, msgClosed, received, receiving, parse, net, dialed,
                   events, pc, loc, ret, panic>>

(* ------------------------------ consumer ------------------------------ *)

\* The goroutine that receives from r.Messages stops receiving.
ConsumerStops ==
    /\ panic = "none"
    /\ receiving
    /\ events < MaxEvents
    /\ events' = events + 1
    /\ receiving' = FALSE
    /\ UNCHANGED <<client, msgClosed, received, parse, net, dialed, pc, loc,
                   ret, pump, panic>>

(* ---------------------------- specification --------------------------- *)

CallerStep(t) ==
    \/ Dial(t)
    \/ LoginCheckConn(t)
    \/ LoginCheckAuth(t)
    \/ LoginWrite(t)
    \/ LoginReadLength(t)
    \/ LoginReadRequestID(t)
    \/ LoginReadType(t)
    \/ LoginReadRest(t)
    \/ LoginSetAuth(t)
    \/ LoginStartPump(t)
    \/ RunCheckConn(t)
    \/ RunCheckAuth(t)
    \/ RunLoad(t)
    \/ RunStore(t)
    \/ RunBuild(t)
    \/ RunWrite(t)
    \/ CloseAuth(t)
    \/ CloseRequestID(t)
    \/ CloseCheckConn(t)
    \/ CloseConn(t)
    \/ CloseNil(t)

PumpStep(p) ==
    \/ PumpReadLength(p)
    \/ PumpReadRequestID(p)
    \/ PumpReadType(p)
    \/ PumpReadPayload(p)
    \/ PumpPublish(p)
    \/ PumpPrint(p)

PeerStep(c) ==
    \/ PeerSend(c)
    \/ PeerDeliver(c)
    \/ PeerClose(c)
    \/ DeadlinePasses(c)

Next ==
    \/ \E t \in Callers : CallerStep(t)
    \/ \E p \in Pumps : PumpStep(p)
    \/ \E c \in Conns : PeerStep(c)
    \/ ConsumerStops

Spec == Init /\ [][Next]_vars

\* The Go scheduler runs every goroutine that can run: a pump that can
\* take a step takes it, and a call that has begun goes on.  Nothing makes
\* a caller begin a call or the peer send.
Fairness ==
    /\ \A p \in Pumps : WF_vars(PumpStep(p))
    /\ \A t \in Callers : WF_vars(pc[t] # "idle" /\ CallerStep(t))

FairSpec == Spec /\ Fairness

(* ---------------------------- ParseAddress ---------------------------- *)

\* the longest host and the longest rest (":" and port) of an address
MaxHostLen == 1
MaxRestLen == 6

DefaultJavaPort == 25565
DefaultBedrockPort == 19132
MaxPortDigits == 5
MaxUint16 == 65535

\* A string is the sequence of its characters.
Letters ==
    {"a", "b", "c", "d", "e", "f", "g", "h", "i", "j", "k", "l", "m", "n",
     "o", "p", "q", "r", "s", "t", "u", "v", "w", "x", "y", "z",
     "A", "B", "C", "D", "E", "F", "G", "H", "I", "J", "K", "L", "M", "N",
     "O", "P", "Q", "R", "S", "T", "U", "V", "W", "X", "Y", "Z"}
DigitSeq == <<"0", "1", "2", "3", "4", "5", "6", "7", "8", "9">>
Digits == {DigitSeq[i] : i \in 1..10}
DigitValue(c) == (CHOOSE i \in 1..10 : DigitSeq[i] = c) - 1

\* [A-Za-z0-9.]
IsHostChar(c) == c \in Letters \cup Digits \cup {"."}

\* The addresses parsed: a start of up to MaxHostLen characters (a letter,
\* a dot, a character no host has) and a rest of up to MaxRestLen
\* characters (the colon and digits that reach both sides of 65535, which
\* before a colon are part of the host).
HostChars == {"a", ".", "!"}
RestChars == {":", "0", "3", "5", "6"}
Strings(A, n) == UNION {[1..k -> A] : k \in 0..n}
Addresses ==
    {h \o r : h \in Strings(HostChars, MaxHostLen),
              r \in Strings(RestChars, MaxRestLen)}
DefaultPorts == {DefaultJavaPort, DefaultBedrockPort}

\* ^([A-Za-z0-9.]+): the host group is greedy and nothing after it can
\* begin with a host character, so it is the longest such prefix.
HostLen(a) ==
    CHOOSE n \in 0..Len(a) :
        /\ \A i \in 1..n : IsHostChar(a[i])
        /\ n = Len(a) \/ ~IsHostChar(a[n + 1])

\* addressRegExp.FindAllStringSubmatch(address, -1): no match, or the one
\* match with its two groups (the port group empty when it takes no part)
FindAllStringSubmatch(a) ==
    LET n    == HostLen(a)
        rest == Drop(a, n)
    IN  IF n = 0
        THEN [ok |-> FALSE, host |-> <<>>, port |-> <<>>]
        ELSE IF rest = <<>>
        THEN [ok |-> TRUE, host |-> Take(a, n), port |-> <<>>]
        ELSE IF /\ rest[1] = ":"
                /\ Len(rest) - 1 \in 1..MaxPortDigits
                /\ \A i \in 2..Len(rest) : rest[i] \in Digits
        THEN [ok |-> TRUE, host |-> Take(a, n), port |-> Tail(rest)]
        ELSE [ok |-> FALSE, host |-> <<>>, port |-> <<>>]

\* The digits read as a decimal number, the first digit the highest.
RECURSIVE Decimal(_, _)
Decimal(d, acc) ==
    IF d = <<>> THEN acc
    ELSE Decimal(Tail(d), 10 * acc + DigitValue(Head(d)))

\* A ParseUint that cuts the number to 16 bits.
ParseUint_Wrap(d) ==
    [value |-> Decimal(d, 0) % (MaxUint16 + 1), err |-> "nil"]

\* strconv.ParseUint(digits, 10, 16)
ParseUint(d) ==
    IF Decimal(d, 0) > MaxUint16
    THEN [value |-> MaxUint16, err |-> "ErrRange"]
    ELSE [value |-> Decimal(d, 0), err |-> "nil"]

ParseAddress(address, defaultPort) ==
    LET matches == FindAllStringSubmatch(address)
        port    == ParseUint(matches.port)
    IN  IF ~matches.ok
        THEN [host |-> <<>>, port |-> defaultPort, err |-> "ErrAddress"]
        ELSE IF Len(matches.port) < 1
        THEN [host |-> matches.host, port |-> defaultPort, err |-> "nil"]
        ELSE IF port.err # "nil"
        THEN [host |-> <<>>, port |-> defaultPort, err |-> port.err]
        ELSE [host |-> matches.host,
              port |-> port.value % (MaxUint16 + 1), err |-> "nil"]

\* A caller has an address and a default port to parse.
ParseInit ==
    /\ NewRCON
    /\ parse \in {[address |-> a, defaultPort |-> d, result |-> NoResult] :
                    a \in Addresses, d \in DefaultPorts}

ParseAddressCall ==
    /\ parse.result = NoResult
    /\ parse' = [parse EXCEPT
                   !.result = ParseAddress(parse.address, parse.defaultPort)]
    /\ UNCHANGED <<client, msgClosed, received, receiving, net, dialed,
                   events, pc, loc, ret, pump, panic>>

ParseNext == ParseAddressCall

ParseSpec == ParseInit /\ [][ParseNext]_vars

(* ------------------------------- claims ------------------------------- *)

\* The callers that have made a call, and the client used by one goroutine
\* only: its calls come one after the other.
Used(t) == pc[t] # "idle" \/ ret[t] # NoReturn
Sequential == Cardinality({t \in Callers : Used(t)}) <= 1

\* The pumps that Logins have started.
Running == {p \in Pumps : pump[p].pc # "off"}

\* The session states of the state machine.
Disconnected == conn = NilConn /\ ~authSuccess
Connected == conn # NilConn /\ ~authSuccess
Authenticated == conn # NilConn /\ authSuccess

\* The field a binary.Read of Login completes in this step, and its value.
FieldDone(t) ==
    /\ loc[t].rd # NilConn
    /\ FullKind(loc[t].rd, loc[t].buf) = "ok"
    /\ Len(FullBuf(loc[t].rd, loc[t].buf)) = HeaderLen
FieldValue(t) == Int32Of(FullBuf(loc[t].rd, loc[t].buf))

Returned(t, op, err) == pc'[t] = "idle" /\ ret'[t] = [op |-> op, err |-> err]

\* C1: for a Connected, unauthenticated session used by one goroutine, a
\* Login that reads request ID -1 returns ErrInvalidPassword and leaves the
\* session Connected (transport attached and open, not authenticated, no
\* pump started); a Login that reads request ID 0 and type 2 goes on to
\* read the rest of the frame, and when that read succeeds it sets
\* authSuccess, starts one pump and returns nil with the session
\* Authenticated.  No other step starts a pump.
C1_LoginOutcome ==
    [][\A t \in Callers :
        /\ (LoginReadRequestID(t) /\ FieldDone(t) /\ Sequential'
                /\ FieldValue(t) = InvalidPasswordID)
            => /\ Returned(t, "Login", "ErrInvalidPassword")
               /\ Connected /\ Connected' /\ conn' = conn
               /\ ~net'[conn].closed
               /\ pump' = pump
        /\ (LoginReadRequestID(t) /\ FieldDone(t)
                /\ FieldValue(t) = LoginRequestID)
            => pc'[t] = "login_type"
        /\ (LoginReadType(t) /\ FieldDone(t) /\ FieldValue(t) = ResponseType)
            => pc'[t] = "login_rest"
        /\ (LoginReadRest(t) /\ loc[t].rd # NilConn
                /\ ReadNow(loc[t].rd, loc[t].packetLength - IdTypeLen)
                      = "ok")
            => pc'[t] = "login_set"
        /\ LoginSetAuth(t) => authSuccess' /\ pc'[t] = "login_go"
        /\ (LoginStartPump(t) /\ Sequential')
            => /\ Returned(t, "Login", "nil")
               /\ Authenticated' /\ conn' = conn
               /\ Cardinality(Running') = Cardinality(Running) + 1
               /\ Running \subseteq Running'
        /\ (Running' # Running) => \E u \in Callers : LoginStartPump(u)
      ]_vars

\* C1 witness: a client used by one goroutine whose Login has returned nil,
\* Authenticated, with the one pump that Login started.
C1_Witness ==
    \E t \in Callers :
        /\ Sequential
        /\ pc[t] = "idle" /\ ret[t] = [op |-> "Login", err |-> "nil"]
        /\ Authenticated
        /\ Cardinality(Running) = 1

\* The bytes a step appends to the wire of transport c.
Sent(c) == Drop(net'[c].wire, Len(net[c].wire))

\* The request ID and the type of a frame, as the peer decodes them.
FrameID(frame) == Int32Of(SubSeq(frame, 5, 8))
FrameType(frame) == Int32Of(SubSeq(frame, 9, 12))

\* C2: a Run with no transport attached returns ErrNotConnected at once,
\* and a Run on an attached, unauthenticated session returns
\* ErrNotAuthenticated; neither step writes to or reads from a transport or
\* changes requestID, and, the client used by one goroutine, nothing
\* authenticates the session between the two checks of a Run.
C2_RunUnauthenticated ==
    [][\A t \in Callers :
        /\ (RunCheckConn(t) /\ conn = NilConn)
            => /\ Returned(t, "Run", "ErrNotConnected")
               /\ net' = net /\ requestID' = requestID
        /\ (RunCheckConn(t) /\ conn # NilConn)
            => /\ pc'[t] = "run_auth"
               /\ net' = net /\ requestID' = requestID
        /\ (RunCheckAuth(t) /\ ~authSuccess)
            => /\ Returned(t, "Run", "ErrNotAuthenticated")
               /\ net' = net /\ requestID' = requestID
        /\ (pc[t] = "run_auth" /\ Sequential' /\ pc'[t] = "run_auth")
            => authSuccess' = authSuccess /\ requestID' = requestID
      ]_vars

\* C2 witness: a Run has returned ErrNotAuthenticated on a Connected
\* session, nothing was written and requestID is still 0.
C2_Witness ==
    \E t \in Callers :
        /\ pc[t] = "idle"
        /\ ret[t] = [op |-> "Run", err |-> "ErrNotAuthenticated"]
        /\ Connected
        /\ net[conn].wire = <<>>
        /\ requestID = 0

\* C3: the client used by one goroutine, a session starts with requestID 0
\* (where Login sets authSuccess), only Run's increment (by exactly 1) and
\* Close's reset change requestID, a Run transmits a type-2 frame carrying
\* the requestID its increment produced, and a Login transmits a type-3
\* frame carrying requestID 0: the k-th Run of a session transmits k.
C3_RequestIDs ==
    [][Sequential' =>
        /\ \A t \in Callers :
            /\ LoginSetAuth(t) => requestID = 0
            /\ (RunLoad(t) \/ RunBuild(t)) => loc'[t].id = requestID
            /\ RunStore(t) => requestID' = requestID + 1
                              /\ loc[t].id = requestID
            /\ (RunWrite(t) /\ net' # net)
                => /\ FrameID(Sent(conn)) = requestID
                   /\ FrameType(Sent(conn)) = CommandType
                   /\ requestID' = requestID
            /\ (LoginWrite(t) /\ net' # net)
                => /\ FrameID(Sent(conn)) = LoginRequestID
                   /\ FrameType(Sent(conn)) = LoginType
            /\ (pc[t] \in LoginPcs \/ pc'[t] \in LoginPcs)
                => requestID' = requestID
        /\ (requestID' # requestID)
            => \E t \in Callers : RunStore(t) \/ CloseRequestID(t)
      ]_vars

\* C3 witness: one goroutine has logged in and run two commands; the wire
\* carries the login frame and the frames of requestID 1 and 2.
C3_Witness ==
    \E t \in Callers : \E a, b \in Commands : \E w \in Passwords :
        /\ Sequential
        /\ pc[t] = "idle" /\ ret[t] = [op |-> "Run", err |-> "nil"]
        /\ Authenticated
        /\ requestID = 2
        /\ net[conn].wire = LoginPacket(w) \o RunPacket(1, a)
                                \o RunPacket(2, b)

\* C8: a Login with no transport attached returns ErrNotConnected at once,
\* and a Login on an Authenticated session returns ErrAlreadyLoggedIn;
\* neither writes to or reads from a transport, starts a pump or changes
\* the client's fields, and, the client used by one goroutine, nothing
\* changes them between the two checks of a Login.
C8_LoginGuards ==
    [][\A t \in Callers :
        /\ (LoginCheckConn(t) /\ conn = NilConn)
            => /\ Returned(t, "Login", "ErrNotConnected")
               /\ UNCHANGED <<client, net, pump>>
        /\ (LoginCheckConn(t) /\ conn # NilConn)
            => /\ pc'[t] = "login_auth"
               /\ UNCHANGED <<client, net, pump>>
        /\ (LoginCheckAuth(t) /\ authSuccess)
            => /\ Returned(t, "Login", "ErrAlreadyLoggedIn")
               /\ UNCHANGED <<client, net, pump>>
        /\ (pc[t] = "login_auth" /\ Sequential' /\ pc'[t] = "login_auth")
            => UNCHANGED client
      ]_vars

\* C8 witness: a Login on an Authenticated session has returned
\* ErrAlreadyLoggedIn, and the session still has its one pump.
C8_Witness ==
    \E t \in Callers :
        /\ pc[t] = "idle"
        /\ ret[t] = [op |-> "Login", err |-> "ErrAlreadyLoggedIn"]
        /\ Authenticated
        /\ Cardinality(Running) = 1

\* A pump left over from a session that Close has ended: it runs, its
\* transport is closed and is no longer the client's.
LeftOver(p) ==
    /\ pump[p].pc # "off"
    /\ net[pump[p].born].closed
    /\ pump[p].born # conn

\* C4: after Close on an Authenticated session of a client used by one
\* goroutine, the pump of the ended session neither crashes the process
\* nor reads from any transport but its own, whatever follows (a Dial, a
\* Login).
C4_NoLeftoverPump ==
    [][\A p \in Pumps :
        (LeftOver(p) /\ Sequential /\ PumpStep(p))
            => /\ panic' = "none"
               /\ \A c \in Conns \ {pump[p].born} : net'[c].rx = net[c].rx
      ]_vars

\* A whole frame: a length field, then as many bytes as it declares, which
\* are a request ID, a type, a payload and two zero bytes.
RECURSIVE WholeFrames(_)
WholeFrames(w) ==
    \/ w = <<>>
    \/ /\ Len(w) >= HeaderLen
       /\ LET n == Int32Of(Take(w, HeaderLen))
          IN  /\ n >= FrameOverhead
              /\ Len(w) >= HeaderLen + n
              /\ w[HeaderLen + n] = 0 /\ w[HeaderLen + n - 1] = 0
              /\ WholeFrames(Drop(w, HeaderLen + n))

\* C5: under every interleaving of callers and pumps, each transport's wire
\* is a sequence of whole frames, and every step that writes appends one
\* frame after what is there, whose declared length is the number of bytes
\* after its length field: 8, the payload and 2.
C5_WholeFramesOnWire ==
    [][\A c \in Conns :
        /\ WholeFrames(net'[c].wire)
        /\ net'[c].wire # net[c].wire
            => /\ Take(net'[c].wire, Len(net[c].wire)) = net[c].wire
               /\ Int32Of(Take(Sent(c), HeaderLen))
                    = Len(Sent(c)) - HeaderLen
               /\ \E payload \in Passwords \cup Commands :
                    Len(Sent(c)) - HeaderLen = IdTypeLen + Len(payload) + 2
      ]_vars

\* C5 witness: with a pump running, two Runs that overlapped (both read
\* the same requestID) have both written their frames.
C5_Witness ==
    \E a, b \in Commands : \E w \in Passwords : \E k \in 1..2 :
        /\ \A t \in Callers :
              pc[t] = "idle" /\ ret[t] = [op |-> "Run", err |-> "nil"]
        /\ Authenticated
        /\ Running # {}
        /\ net[conn].wire = LoginPacket(w) \o RunPacket(k, a)
                                \o RunPacket(k, b)

\* The errors a Read of the pump fails with.
ReadErrors == {"ErrClosed", "ErrTimeout", "EOF", "ErrUnexpectedEOF"}

\* C6: when readMessage has returned the error of a failed Read, the pump
\* goes on to no further Read and the message stream is closed.
C6_PumpStopsOnReadError ==
    [][\A p \in Pumps :
        (PumpPrint(p) /\ pump[p].err \in ReadErrors)
            => /\ pump'[p].pc \notin {"len", "id", "type", "payload"}
               /\ msgClosed'
      ]_vars

\* A session that was Authenticated and that Close has ended: a Close has
\* returned nil, the client is Disconnected and a pump was started.
TornDown ==
    /\ Disconnected
    /\ Running # {}
    /\ \E t \in Callers :
          pc[t] = "idle" /\ ret[t] = [op |-> "Close", err |-> "nil"]

\* C7: after the teardown of an Authenticated session the message stream
\* is eventually closed.
C7_StreamEventuallyClosed == TornDown ~> msgClosed

\* A step of a Close call.
CloseStep(t) ==
    \/ CloseAuth(t) \/ CloseRequestID(t) \/ CloseCheckConn(t)
    \/ CloseConn(t) \/ CloseNil(t)

\* C9: the client used by one goroutine, a Close always returns nil, and
\* when it returns the session is Disconnected: authSuccess is false,
\* requestID is 0, conn is nil and the transport that was attached is
\* closed.  A Close on a session that is Disconnected already changes no
\* field of the client and no transport, and returns nil as well.
C9_Close ==
    [][\A t \in Callers : Sequential' =>
        /\ CloseNil(t)
            => /\ Returned(t, "Close", "nil")
               /\ Disconnected' /\ requestID' = 0
               /\ conn # NilConn => net[conn].closed
        /\ (pc[t] \in ClosePcs /\ pc'[t] = "idle") => CloseNil(t)
        /\ (CloseConn(t) /\ conn # NilConn)
            => ~net[conn].closed /\ net'[conn].closed
        /\ (Disconnected /\ requestID = 0 /\ CloseStep(t))
            => /\ UNCHANGED <<client, net>>
               /\ pc'[t] # "close_conn"
      ]_vars

\* C9 witness: one goroutine has logged in, run a command and closed the
\* session: the transport that carried requestID 1 is closed and the
\* client is Disconnected with requestID 0.
C9_Witness ==
    \E t \in Callers : \E c \in Conns :
        /\ Sequential
        /\ pc[t] = "idle" /\ ret[t] = [op |-> "Close", err |-> "nil"]
        /\ Disconnected /\ requestID = 0
        /\ net[c].closed
        /\ \E a \in Commands : \E w \in Passwords :
              net[c].wire = LoginPacket(w) \o RunPacket(1, a)

\* C10: a Login that reads a request ID other than 0 and -1, or a type
\* other than 2, returns the error of the unexpected field and leaves the
\* session Disconnected: no transport attached, not authenticated, no
\* pump started.
C10_ProtocolErrorDisconnects ==
    [][\A t \in Callers :
        (FieldDone(t) /\ Sequential'
           /\ \/ /\ LoginReadRequestID(t)
                 /\ FieldValue(t) \notin {LoginRequestID, InvalidPasswordID}
              \/ /\ LoginReadType(t)
                 /\ FieldValue(t) # ResponseType)
            => /\ pc'[t] = "idle"
               /\ ret'[t].err \in {"ErrUnexpectedRequestID",
                                   "ErrUnexpectedType"}
               /\ pump' = pump
               /\ Disconnected'
      ]_vars

\* C11: whatever the callers do, whatever bytes the peer sends and however
\* the pump interleaves, the process never panics: no method is called on
\* the nil conn and no make gets a negative size.
C11_NoPanic == panic = "none"

\* C12: after Close has returned on an Authenticated session, eventually
\* no pump of an ended session is left running (a process that has
\* panicked counts as stopped).
C12_CloseEndsPump ==
    TornDown ~> (panic # "none" \/ \A p \in Pumps : ~LeftOver(p))

\* C13: a pump that is publishing a message while the consumer has stopped
\* receiving can still take a step: it is not blocked in the publish.
C13_PumpNotBlocked ==
    \A p \in Pumps :
        (panic = "none" /\ pump[p].pc = "publish" /\ ~receiving)
            => ENABLED PumpStep(p)

\* The trailing bytes (payload, terminator and padding) of the frames the
\* peer sends.
Payloads == {Drop(w[1], HeaderLen + IdTypeLen) : w \in PeerWrites}

\* C14: every message the consumer has received from the stream is the
\* payload of one frame the peer sent.
C14_MessagesArePayloads ==
    \A i \in 1..Len(received) : received[i] \in Payloads

\* host: one or more letters, digits and dots
IsHost(h) == h # <<>> /\ \A i \in 1..Len(h) : IsHostChar(h[i])

\* port: one to five decimal digits
IsPort(d) ==
    /\ Len(d) \in 1..MaxPortDigits
    /\ \A i \in 1..Len(d) : d[i] \in Digits

\* Where the colon of host:port stands in a, or 0 if a is not host:port.
ColonOf(a) ==
    IF \E i \in 1..Len(a) : /\ a[i] = ":"
                            /\ IsHost(Take(a, i - 1))
                            /\ IsPort(Drop(a, i))
    THEN CHOOSE i \in 1..Len(a) : /\ a[i] = ":"
                                  /\ IsHost(Take(a, i - 1))
                                  /\ IsPort(Drop(a, i))
    ELSE 0

\* The number a port of decimal digits writes.
RECURSIVE PortValue(_)
PortValue(d) ==
    IF d = <<>> THEN 0
    ELSE 10 * PortValue(Take(d, Len(d) - 1)) + DigitValue(d[Len(d)])

\* C15: ParseAddress fails with the address error unless the whole string
\* is host or host:port; for a host alone it returns the host and the
\* default port; for host:port with the port at most 65535 it returns the
\* host and the port; with the port above 65535 it fails with the range
\* error.
C15_ParseAddress ==
    LET a == parse.address
        r == parse.result
        i == ColonOf(a)
    IN  r # NoResult =>
          IF IsHost(a)
          THEN r = [host |-> a, port |-> parse.defaultPort, err |-> "nil"]
          ELSE IF i = 0
          THEN r.err = "ErrAddress"
          ELSE IF PortValue(Drop(a, i)) <= MaxUint16
          THEN r = [host |-> Take(a, i - 1),
                    port |-> PortValue(Drop(a, i)), err |-> "nil"]
          ELSE r.err = "ErrRange"

\* C15 witness: an address with the highest port, 65535, has been parsed
\* into its host and that port.
C15_Witness ==
    /\ parse.result.err = "nil"
    /\ parse.result.port = MaxUint16
    /\ parse.result.host = <<"a">>
    /\ Len(parse.address) = 7

(* ------------------------------- C16 ---------------------------------- *)

\* The bytes the Read a pump is in asks for.
PumpWant(p) ==
    CASE pump[p].pc \in {"len", "id"} -> HeaderLen
      [] pump[p].pc = "type" -> HeaderLen - Len(pump[p].buf)
      [] pump[p].pc = "payload" -> pump[p].packetLength - IdTypeLen
      [] OTHER -> 0

\* A Read of pump p returns bytes without an error in this step.
PumpGets(p) ==
    /\ \/ PumpReadLength(p)
       \/ PumpReadRequestID(p)
       \/ PumpReadType(p)
       \/ PumpReadPayload(p)
    /\ pump[p].rd # NilConn
    /\ ReadNow(pump[p].rd, PumpWant(p)) = "ok"

\* The Read of the trailing bytes of Login's response returns bytes
\* without an error in this step.
LoginGetsRest(t) ==
    /\ LoginReadRest(t)
    /\ loc[t].rd # NilConn
    /\ ReadNow(loc[t].rd, loc[t].packetLength - IdTypeLen) = "ok"

\* C16: the receiver consumes exactly the bytes a frame declares.  The
\* length the pump uses is the full 32-bit value of the length field, and
\* a Read that returns fewer bytes than it was asked for leaves the
\* receiver in the same field with the bytes kept, or fails: neither the
\* pump nor Login goes on as if the field were complete or absent.
C16_ExactReads ==
    [][/\ \A p \in Pumps :
             PumpGets(p) =>
                 LET b == Got(pump[p].rd, PumpWant(p))
                 IN  /\ Len(b) < PumpWant(p) =>
                            \/ pump'[p].pc = "print"
                            \/ /\ pump'[p].pc = pump[p].pc
                               /\ pump'[p].buf = pump[p].buf \o b
                     /\ (pump[p].pc = "len" /\ Len(b) = HeaderLen) =>
                            pump'[p].packetLength = Int32Of(b)
       /\ \A t \in Callers :
             LET want == loc[t].packetLength - IdTypeLen
             IN  (LoginGetsRest(t) /\ Len(Got(loc[t].rd, want)) < want)
                     => pc'[t] # "login_set"]_vars

(* ------------------------------- C17 ---------------------------------- *)

\* Login has succeeded on transport c: it started a pump for it.
LoggedIn(c) == \E p \in Pumps : pump[p].pc # "off" /\ pump[p].born = c

\* C17: after a successful Login no deadline that Dial set is in force on
\* the transport, neither the one for reads nor the one for writes, so
\* nothing done after the handshake window fails because of it.
C17_DeadlineCleared ==
    \A c \in Conns : LoggedIn(c) => ~net[c].rdl /\ ~net[c].wdl

(* ------------------------------- C18 ---------------------------------- *)

\* The request IDs of the command frames in the whole frames of wire w.
RECURSIVE RunIDs(_)
RunIDs(w) ==
    IF Len(w) < HeaderLen + IdTypeLen \/ Int32Of(Take(w, HeaderLen)) < IdTypeLen
    THEN {}
    ELSE LET rest == RunIDs(Drop(w, HeaderLen + Int32Of(Take(w, HeaderLen))))
         IN  IF FrameType(w) = CommandType
             THEN {FrameID(w)} \cup rest
             ELSE rest

\* C18: access to requestID is serialized.  Under every interleaving of
\* Run calls, the increment of each Run leaves the counter exactly one
\* higher than it was, and the frame a Run transmits carries a request ID
\* that no command frame already on that transport carries.
C18_DistinctRequestIDs ==
    [][\A t \in Callers :
        /\ RunStore(t) => requestID' = Inc32(requestID)
        /\ (RunWrite(t) /\ net' # net)
            => FrameID(Sent(conn)) \notin RunIDs(net[conn].wire)
      ]_vars

(* ------------------------------- C19 ---------------------------------- *)

\* The outcomes Login decides from the header of the response.
HeaderErrors == {"ErrInvalidPassword", "ErrUnexpectedRequestID",
                 "ErrUnexpectedType"}

\* The bytes of the response, after its length field, that Login has
\* consumed once the field it is reading is complete.
LoginConsumed(t) ==
    CASE pc[t] = "login_id" -> HeaderLen
      [] pc[t] = "login_type" -> IdTypeLen
      [] OTHER -> 0

\* C19: whenever Login leaves the response it has read the header of, it
\* has consumed all the bytes the frame declares: a Login that returns on
\* the request ID or the type has consumed packetLength bytes after the
\* length field, and a Login that goes on after the trailing bytes has
\* read all packetLength - 8 of them.
C19_LoginDrainsFrame ==
    [][\A t \in Callers :
        /\ ( /\ LoginReadRequestID(t) \/ LoginReadType(t)
             /\ pc'[t] = "idle"
             /\ ret'[t].err \in HeaderErrors )
            => LoginConsumed(t) = loc[t].packetLength
        /\ (LoginGetsRest(t) /\ pc'[t] = "login_set")
            => Len(Got(loc[t].rd, loc[t].packetLength - IdTypeLen))
                 = loc[t].packetLength - IdTypeLen
      ]_vars

(* ------------------------------- C20 ---------------------------------- *)

\* No Login is between its first check and its return.
NoLoginInProgress == \A t \in Callers : pc[t] \notin LoginPcs

\* Caller t returns from Login with an error in this step, other than
\* the refusal of a session that is logged in already.
LoginFails(t) ==
    /\ pc[t] \in LoginPcs \/ LoginCheckConn(t)
    /\ pc'[t] = "idle"
    /\ ret'[t].op = "Login"
    /\ ret'[t].err \notin {"nil", "ErrAlreadyLoggedIn"}

\* C20: with no Login in progress, authSuccess is true only if a transport
\* is attached and a pump was started for it; and a Login that returns an
\* error leaves authSuccess false, so that no Run is accepted after it.
C20_AuthenticatedHasPump ==
    [][/\ (NoLoginInProgress' /\ authSuccess')
            => (conn' # NilConn /\ LoggedIn(conn)')
       /\ \A t \in Callers : LoginFails(t) => ~authSuccess'
      ]_vars

=============================================================================
